---- MODULE Spec2Model ----
(***************************************************************************)
(* Network-lock key model (package tka), key identifiers (package          *)
(* tkatype) and the `tailscale lock log --json` printer (package           *)
(* jsonoutput).                                                            *)
(*                                                                         *)
(* Conventions.  A Go []byte is a record [isNil, b] where b is a sequence  *)
(* of numbers 0..255; a Go string or a JSON text is a sequence of          *)
(* one-byte tokens (an ASCII character is the one-character string, a      *)
(* non-ASCII byte is written "xNN"); a Go map is a record [isNil, m]       *)
(* where m is a function.  An error is the leading text of its message,    *)
(* NoErr is Go's nil error.                                                *)
(***************************************************************************)
EXTENDS Integers, Sequences, FiniteSets, TLC

VARIABLES
    key, res,                                     \* SpecKey
    heapBytes, heapMaps, orig, clone, last,       \* SpecClone
    kid, buf, target, kerr, klast,                \* SpecKeyID
    jkey, jdoc, jdst, jerr, jlast,                \* SpecKeyJSON
    updates, jsonVersion, pc, idx, messages, out, err   \* SpecLog

keyVars == <<key, res>>
cloneVars == <<heapBytes, heapMaps, orig, clone, last>>
kidVars == <<kid, buf, target, kerr, klast>>
jsonVars == <<jkey, jdoc, jdst, jerr, jlast>>
logVars == <<updates, jsonVersion, pc, idx, messages, out, err>>
vars == <<keyVars, cloneVars, kidVars, jsonVars, logVars>>

\* What an operation of one component leaves alone: the other components.
notKey == <<cloneVars, kidVars, jsonVars, logVars>>
notClone == <<keyVars, kidVars, jsonVars, logVars>>
notKid == <<keyVars, cloneVars, jsonVars, logVars>>
notJson == <<keyVars, cloneVars, kidVars, logVars>>
notLog == <<keyVars, cloneVars, kidVars, jsonVars>>

(***************************************************************************)
(* Shared values                                                           *)
(***************************************************************************)
NoErr == "nil"
None == [none |-> TRUE]

NilBytes == [isNil |-> TRUE, b |-> <<>>]
Bytes(s) == [isNil |-> FALSE, b |-> s]

EmptyFn == [x \in {} |-> <<>>]
NilMap == [isNil |-> TRUE, m |-> EmptyFn]
Map(f) == [isNil |-> FALSE, m |-> f]

Rep(c, n) == [j \in 1..n |-> c]

(***************************************************************************)
(* KeyKind                                                                 *)
(***************************************************************************)
KeyInvalid == 0
Key25519 == 1
MaxKind == 2
Kinds == 0..MaxKind

(***************************************************************************)
(* Key.ID, Key.Ed25519, Key.StaticValidate                                 *)
(***************************************************************************)
maxMetaBytes == 512
maxVotes == 4096
PublicKeySize == 32

ID(k) ==
    IF k.Kind = Key25519
    THEN [id |-> k.Public, err |-> NoErr]
    ELSE [id |-> NilBytes, err |-> "unknown key kind"]

Ed25519(k) ==
    IF k.Kind = Key25519
    THEN [pub |-> k.Public, err |-> NoErr]
    ELSE [pub |-> NilBytes, err |-> "key is not ed25519"]

\* The loop of StaticValidate over k.Meta.  metaBytes is a uint; the sums
\* reached here stay far below its width, so no wrap-around is modelled.
RECURSIVE SumMeta(_, _)
SumMeta(m, ks) ==
    IF ks = {} THEN 0
    ELSE LET k == CHOOSE x \in ks : TRUE
         IN SumMeta(m, ks \ {k}) + (Len(k) + Len(m[k]))

metaBytes(k) == SumMeta(k.Meta.m, DOMAIN k.Meta.m)

StaticValidate_NoZeroCheck(k) ==
    IF k.Votes > maxVotes THEN "excessive key weight"
    ELSE IF metaBytes(k) > maxMetaBytes THEN "key metadata too big"
    ELSE IF k.Kind # Key25519 THEN "unrecognized key kind"
    ELSE NoErr

StaticValidate_NoKindCheck(k) ==
    IF k.Votes > maxVotes THEN "excessive key weight"
    ELSE IF k.Votes = 0 THEN "key votes must be non-zero"
    ELSE IF metaBytes(k) > maxMetaBytes THEN "key metadata too big"
    ELSE NoErr

StaticValidate_MetaOffByOne(k) ==
    IF k.Votes > maxVotes THEN "excessive key weight"
    ELSE IF k.Votes = 0 THEN "key votes must be non-zero"
    ELSE IF metaBytes(k) >= maxMetaBytes THEN "key metadata too big"
    ELSE IF k.Kind # Key25519 THEN "unrecognized key kind"
    ELSE NoErr

StaticValidate(k) ==
    IF k.Votes > maxVotes THEN "excessive key weight"
    ELSE IF k.Votes = 0 THEN "key votes must be non-zero"
    ELSE IF metaBytes(k) > maxMetaBytes THEN "key metadata too big"
    ELSE IF k.Kind # Key25519 THEN "unrecognized key kind"
    ELSE NoErr

(***************************************************************************)
(* SpecKey: a key drawn from the sets below, and the three read-only       *)
(* methods applied to it.                                                  *)
(***************************************************************************)
MaxVotesInput == 4098
MaxPubExtra == 1

VoteSamples == {0, 1, maxVotes, maxVotes + 1}

PubLens == {0, 1, 2} \cup ((PublicKeySize - 1)..(PublicKeySize + MaxPubExtra))
Publics == {NilBytes} \cup {Bytes(Rep(7, n)) : n \in PubLens}
Public32 == Bytes(Rep(7, PublicKeySize))

MetaLens == {0, 1, maxMetaBytes \div 2 - 1, maxMetaBytes \div 2,
             maxMetaBytes \div 2 + 1, maxMetaBytes - 1, maxMetaBytes,
             maxMetaBytes + 1}

Meta1(kl, vl) == Map((Rep("k", kl) :> Rep("v", vl)))
Meta2(kl, vl, wl) == Map((Rep("k", kl) :> Rep("v", vl)) @@ (<<"b">> :> Rep("w", wl)))
Meta3(vl) == Map((<<"a">> :> Rep("v", vl)) @@ (<<"b">> :> <<>>) @@ (<<>> :> <<"c">>))

Metas1 == {Meta1(kl, vl) : kl \in MetaLens, vl \in MetaLens}
Metas2 == {Meta2(kl, vl, wl) : kl \in MetaLens, vl \in MetaLens, wl \in MetaLens}
Metas3 == {Meta3(vl) : vl \in (maxMetaBytes - 4)..(maxMetaBytes - 1)}
MetasFew == {NilMap, Map(EmptyFn), Meta1(1, 1), Meta1(1, maxMetaBytes - 1),
             Meta1(1, maxMetaBytes)}
MetasAll == MetasFew \cup Metas1 \cup Metas2 \cup Metas3

KeysByVotes ==
    [Kind : Kinds, Votes : 0..MaxVotesInput, Public : {Public32},
     Meta : {NilMap, Meta1(1, maxMetaBytes - 1)}]
KeysByMeta ==
    [Kind : {KeyInvalid, Key25519}, Votes : {1, maxVotes}, Public : {Public32},
     Meta : MetasAll]
KeysByPublic ==
    [Kind : Kinds, Votes : VoteSamples, Public : Publics, Meta : MetasFew]
Keys == KeysByVotes \cup KeysByMeta \cup KeysByPublic

KeyInit ==
    /\ key \in Keys
    /\ res = [op |-> "none"]
    \* the other components are not in use
    /\ heapBytes = <<>>
    /\ heapMaps = <<>>
    /\ orig = None
    /\ clone = None
    /\ last = [op |-> "none"]
    /\ kid = None
    /\ buf = <<>>
    /\ target = None
    /\ kerr = NoErr
    /\ klast = [op |-> "none", src |-> "none"]
    /\ jkey = None
    /\ jdoc = None
    /\ jdst = None
    /\ jerr = NoErr
    /\ jlast = [op |-> "none"]
    /\ updates = <<>>
    /\ jsonVersion = 0
    /\ pc = "idle"
    /\ idx = 0
    /\ messages = <<>>
    /\ out = <<>>
    /\ err = NoErr

DoStaticValidate ==
    /\ res' = [op |-> "StaticValidate", err |-> StaticValidate(key)]
    /\ UNCHANGED key
    /\ UNCHANGED notKey

DoID ==
    /\ res' = [op |-> "ID"] @@ ID(key)
    /\ UNCHANGED key
    /\ UNCHANGED notKey

DoEd25519 ==
    /\ res' = [op |-> "Ed25519"] @@ Ed25519(key)
    /\ UNCHANGED key
    /\ UNCHANGED notKey

KeyNext ==
    \/ DoStaticValidate
    \/ DoID
    \/ DoEd25519

\* Every byte of every entry, counted one by one.
MetaTotal(k) ==
    Cardinality(UNION {{k1} \X (1..Len(k1)) : k1 \in DOMAIN k.Meta.m})
    + Cardinality(UNION {{k1} \X (1..Len(k.Meta.m[k1])) : k1 \in DOMAIN k.Meta.m})

\* C1: StaticValidate on an Ed25519 key whose metadata is within the bound
\* succeeds exactly when 1 <= Votes <= 4096: it fails for 0 and above 4096.
C1_VotesRange ==
    (res.op = "StaticValidate" /\ key.Kind = Key25519 /\ MetaTotal(key) <= maxMetaBytes)
        => ((res.err = NoErr) <=> (key.Votes >= 1 /\ key.Votes <= maxVotes))

C1_Witness ==
    /\ res.op = "StaticValidate"
    /\ key.Kind = Key25519
    /\ key.Votes = maxVotes
    /\ ~key.Meta.isNil
    /\ res.err = NoErr

\* C2: a key whose kind is not Ed25519 (the invalid sentinel included) is
\* never accepted: StaticValidate fails, ID fails with a nil identifier and
\* Ed25519 fails with a nil public key, whatever the other fields are.
C2_UnknownKindRejected ==
    key.Kind # Key25519 =>
        /\ res.op = "StaticValidate" => res.err # NoErr
        /\ res.op = "ID" => (res.err # NoErr /\ res.id = NilBytes)
        /\ res.op = "Ed25519" => (res.err # NoErr /\ res.pub = NilBytes)

C2_Witness ==
    /\ res.op = "StaticValidate"
    /\ key.Kind = KeyInvalid
    /\ key.Votes = 1
    /\ MetaTotal(key) <= maxMetaBytes
    /\ Len(key.Public.b) = PublicKeySize
    /\ res.err = "unrecognized key kind"

\* C3: every Ed25519 key StaticValidate accepts has a Public of exactly 32
\* bytes, and so the KeyID of a validated key is 32 bytes long.
C3_PublicMatchesKind ==
    /\ (res.op = "StaticValidate" /\ key.Kind = Key25519 /\ res.err = NoErr)
          => Len(key.Public.b) = PublicKeySize
    /\ (res.op = "ID" /\ res.err = NoErr /\ StaticValidate(key) = NoErr)
          => Len(res.id.b) = PublicKeySize

\* C4: with valid votes and kind, StaticValidate succeeds exactly when the
\* bytes of all metadata keys and values together are at most 512, however
\* they are split across entries (an absent or empty Meta counts 0).
C4_MetaBound ==
    (res.op = "StaticValidate" /\ key.Kind = Key25519
        /\ key.Votes >= 1 /\ key.Votes <= maxVotes)
        => ((res.err = NoErr) <=> (MetaTotal(key) <= maxMetaBytes))

C4_Witness ==
    /\ res.op = "StaticValidate"
    /\ key.Kind = Key25519
    /\ Cardinality(DOMAIN key.Meta.m) >= 2
    /\ MetaTotal(key) = maxMetaBytes
    /\ res.err = NoErr

(***************************************************************************)
(* Key.Clone.  Slices and maps are references: a key holds the address of  *)
(* its Public array and of its Meta map (0 is nil), the heaps hold the     *)
(* contents.                                                               *)
(***************************************************************************)
MaxPubLen == 2
ByteVals == {1, 2}
MetaKeys == {<<"a">>, <<"b">>}
MetaVals == {<<"x">>, <<"y">>}

Alloc(heap, v) == Append(heap, v)

View(h) ==
    [Kind |-> h.Kind, Votes |-> h.Votes,
     Public |-> IF h.Public = 0 THEN NilBytes ELSE Bytes(heapBytes[h.Public]),
     Meta |-> IF h.Meta = 0 THEN NilMap ELSE Map(heapMaps[h.Meta])]

Handle(h) == IF h = "orig" THEN orig ELSE clone

CloneInitPublics == UNION {[1..n -> ByteVals] : n \in 0..MaxPubLen}
CloneInitMetas == {EmptyFn, (<<"a">> :> <<"x">>)}

CloneInit ==
    /\ \E p \in {None} \cup {Bytes(s) : s \in CloneInitPublics},
          m \in {None} \cup {Map(f) : f \in CloneInitMetas},
          kind \in {KeyInvalid, Key25519}, votes \in {1, 2} :
          /\ heapBytes = IF p = None THEN <<>> ELSE <<p.b>>
          /\ heapMaps = IF m = None THEN <<>> ELSE <<m.m>>
          /\ orig = [Kind |-> kind, Votes |-> votes,
                     Public |-> IF p = None THEN 0 ELSE 1,
                     Meta |-> IF m = None THEN 0 ELSE 1]
    /\ clone = None
    /\ last = [op |-> "none"]
    \* the other components are not in use
    /\ key = None
    /\ res = [op |-> "none"]
    /\ kid = None
    /\ buf = <<>>
    /\ target = None
    /\ kerr = NoErr
    /\ klast = [op |-> "none", src |-> "none"]
    /\ jkey = None
    /\ jdoc = None
    /\ jdst = None
    /\ jerr = NoErr
    /\ jlast = [op |-> "none"]
    /\ updates = <<>>
    /\ jsonVersion = 0
    /\ pc = "idle"
    /\ idx = 0
    /\ messages = <<>>
    /\ out = <<>>
    /\ err = NoErr

Clone_SharePublic ==
    /\ clone = None
    /\ heapBytes' = heapBytes
    /\ heapMaps' = IF orig.Meta # 0 THEN Alloc(heapMaps, heapMaps[orig.Meta]) ELSE heapMaps
    /\ clone' = [orig EXCEPT !.Meta = IF orig.Meta # 0 THEN Len(heapMaps) + 1 ELSE 0]
    /\ last' = [op |-> "Clone"]
    /\ UNCHANGED orig
    /\ UNCHANGED notClone

Clone ==
    /\ clone = None
    /\ heapBytes' = IF orig.Public # 0
                     THEN Alloc(heapBytes, [j \in 1..Len(heapBytes[orig.Public]) |->
                                                heapBytes[orig.Public][j]])
                     ELSE heapBytes
    /\ heapMaps' = IF orig.Meta # 0
                    THEN Alloc(heapMaps, [k \in DOMAIN heapMaps[orig.Meta] |->
                                              heapMaps[orig.Meta][k]])
                    ELSE heapMaps
    /\ clone' = [orig EXCEPT !.Public = IF orig.Public # 0 THEN Len(heapBytes) + 1 ELSE 0,
                             !.Meta = IF orig.Meta # 0 THEN Len(heapMaps) + 1 ELSE 0]
    /\ last' = [op |-> "Clone"]
    /\ UNCHANGED orig
    /\ UNCHANGED notClone

\* h.Public[j] = b
WritePublic ==
    \E h \in {"orig", "clone"} :
        /\ Handle(h) # None
        /\ Handle(h).Public # 0
        /\ \E j \in 1..Len(heapBytes[Handle(h).Public]), b \in ByteVals :
              heapBytes' = [heapBytes EXCEPT ![Handle(h).Public][j] = b]
        /\ last' = [op |-> "WritePublic", h |-> h]
        /\ UNCHANGED <<heapMaps, orig, clone>>
    /\ UNCHANGED notClone

\* h.Meta[k] = v
WriteMeta ==
    \E h \in {"orig", "clone"} :
        /\ Handle(h) # None
        /\ Handle(h).Meta # 0
        /\ \E k \in MetaKeys, v \in MetaVals :
              heapMaps' = [heapMaps EXCEPT ![Handle(h).Meta] = (k :> v) @@ @]
        /\ last' = [op |-> "WriteMeta", h |-> h]
        /\ UNCHANGED <<heapBytes, orig, clone>>
    /\ UNCHANGED notClone

\* delete(h.Meta, k)
DeleteMeta ==
    \E h \in {"orig", "clone"} :
        /\ Handle(h) # None
        /\ Handle(h).Meta # 0
        /\ \E k \in DOMAIN heapMaps[Handle(h).Meta] :
              heapMaps' = [heapMaps EXCEPT ![Handle(h).Meta] =
                              [x \in (DOMAIN @) \ {k} |-> @[x]]]
        /\ last' = [op |-> "DeleteMeta", h |-> h]
        /\ UNCHANGED <<heapBytes, orig, clone>>
    /\ UNCHANGED notClone

CloneNext ==
    \/ Clone
    \/ WritePublic
    \/ WriteMeta
    \/ DeleteMeta

\* C5: Clone returns an independent copy.  Right after Clone the copy equals
\* the original field for field (a nil Public or Meta is nil in the copy, a
\* non-nil empty one is non-nil and empty) and the original is untouched;
\* afterwards a write through one of the two keys never changes what the
\* other one holds.
C5_CloneIndependent ==
    [][/\ last'.op = "Clone" =>
             (View(clone)' = View(orig)' /\ View(orig)' = View(orig))
       /\ (last'.op \in {"WritePublic", "WriteMeta", "DeleteMeta"} /\ clone # None) =>
             IF last'.h = "clone"
             THEN View(orig)' = View(orig)
             ELSE View(clone)' = View(clone)]_vars

C5_Witness ==
    /\ clone # None
    /\ last.op = "WritePublic"
    /\ last.h = "clone"
    /\ orig.Public # 0 /\ orig.Meta # 0
    /\ View(clone).Public # View(orig).Public
    /\ View(clone).Meta # View(orig).Meta

(***************************************************************************)
(* Text helpers: fmt's %x, encoding/hex, and encoding/json on a string.    *)
(***************************************************************************)
DQ == "\""
BS == "\\"
NullText == <<"n", "u", "l", "l">>
Prefix == <<"t", "l", "p", "u", "b", ":">>

LowerHex == <<"0", "1", "2", "3", "4", "5", "6", "7", "8", "9",
              "a", "b", "c", "d", "e", "f">>
UpperHex == <<"0", "1", "2", "3", "4", "5", "6", "7", "8", "9",
              "A", "B", "C", "D", "E", "F">>

\* fmt.Sprintf("%x", b): two lowercase digits per byte, high nibble first.
HexEncode(b) ==
    [j \in 1..(2 * Len(b)) |->
        IF j % 2 = 1 THEN LowerHex[(b[(j + 1) \div 2] \div 16) + 1]
                     ELSE LowerHex[(b[j \div 2] % 16) + 1]]

\* encoding/hex fromHexChar: the digit's value, or -1.
HexVal(c) ==
    IF \E n \in 1..16 : LowerHex[n] = c THEN (CHOOSE n \in 1..16 : LowerHex[n] = c) - 1
    ELSE IF \E n \in 1..16 : UpperHex[n] = c THEN (CHOOSE n \in 1..16 : UpperHex[n] = c) - 1
    ELSE -1

\* hex.DecodeString: an odd length or a character that is no hex digit is an error.
HexDecode(s) ==
    IF Len(s) % 2 = 1 \/ \E j \in 1..Len(s) : HexVal(s[j]) = -1
    THEN [ok |-> FALSE, b |-> <<>>]
    ELSE [ok |-> TRUE,
          b |-> [j \in 1..(Len(s) \div 2) |-> HexVal(s[2 * j - 1]) * 16 + HexVal(s[2 * j])]]

\* One byte of a Go string as encoding/json writes it inside a JSON string:
\* the quote and the backslash are escaped, the angle brackets are written
\* as their u-escapes (003c, 003e), and a byte that is not valid UTF-8
\* becomes the u-escape of the replacement character (fffd).
EscapeByte(c) ==
    IF c = DQ THEN <<BS, DQ>>
    ELSE IF c = BS THEN <<BS, BS>>
    ELSE IF c = "<" THEN <<BS, "u", "0", "0", "3", "c">>
    ELSE IF c = ">" THEN <<BS, "u", "0", "0", "3", "e">>
    ELSE IF c = "xFF" THEN <<BS, "u", "f", "f", "f", "d">>
    ELSE <<c>>

RECURSIVE EscapeAll(_)
EscapeAll(s) ==
    IF s = <<>> THEN <<>> ELSE EscapeByte(Head(s)) \o EscapeAll(Tail(s))

\* json.Marshal(s) for a string s.
JSONMarshalString(s) == <<DQ>> \o EscapeAll(s) \o <<DQ>>

\* The body of a JSON string, unescaped; "bad" marks a malformed body.  The
\* \u escapes known here are the ones EscapeByte writes.
RECURSIVE Unescape(_)
Unescape(t) ==
    IF t = <<>> THEN <<>>
    ELSE IF Head(t) = DQ THEN <<"bad">>
    ELSE IF Head(t) = "xFF" THEN <<"xEF", "xBF", "xBD">> \o Unescape(Tail(t))
    ELSE IF Head(t) # BS THEN <<Head(t)>> \o Unescape(Tail(t))
    ELSE IF Len(t) < 2 THEN <<"bad">>
    ELSE IF t[2] = DQ THEN <<DQ>> \o Unescape(SubSeq(t, 3, Len(t)))
    ELSE IF t[2] = BS THEN <<BS>> \o Unescape(SubSeq(t, 3, Len(t)))
    ELSE IF t[2] = "u" /\ Len(t) >= 6
         THEN LET h == SubSeq(t, 3, 6)
                  rest == Unescape(SubSeq(t, 7, Len(t)))
              IN IF h = <<"0", "0", "3", "c">> THEN <<"<">> \o rest
                 ELSE IF h = <<"0", "0", "3", "e">> THEN <<">">> \o rest
                 ELSE IF h = <<"f", "f", "f", "d">> THEN <<"xEF", "xBF", "xBD">> \o rest
                 ELSE <<"bad">>
    ELSE <<"bad">>

\* json.Unmarshal(b, &s) for a string s: b must be a JSON string.
JSONUnmarshalString(b) ==
    IF Len(b) < 2 \/ b[1] # DQ \/ b[Len(b)] # DQ
    THEN [ok |-> FALSE, s |-> <<>>]
    ELSE LET u == Unescape(SubSeq(b, 2, Len(b) - 1))
         IN IF \E j \in 1..Len(u) : u[j] = "bad"
            THEN [ok |-> FALSE, s |-> <<>>]
            ELSE [ok |-> TRUE, s |-> u]

HasPrefix(s, p) == Len(s) >= Len(p) /\ SubSeq(s, 1, Len(p)) = p

(***************************************************************************)
(* tkatype.KeyID: MarshalJSON and UnmarshalJSON                            *)
(***************************************************************************)
KeyIDMarshalJSON(k) ==
    IF Len(k.b) = 0 THEN NullText
    ELSE JSONMarshalString(Prefix \o HexEncode(k.b))

\* The result is the value *k holds afterwards and the error returned.
KeyIDUnmarshalJSON_NoPrefixCheck(k, b) ==
    IF b = NullText THEN [k |-> Bytes(<<>>), err |-> NoErr]
    ELSE LET r == JSONUnmarshalString(b)
         IN IF ~r.ok THEN [k |-> k, err |-> "KeyID: cannot unmarshal non-string, non-null value"]
            ELSE LET d == HexDecode(SubSeq(r.s, Len(Prefix) + 1, Len(r.s)))
                 IN IF ~d.ok THEN [k |-> k, err |-> "KeyID: invalid hex encoding"]
                    ELSE [k |-> Bytes(d.b), err |-> NoErr]

KeyIDUnmarshalJSON(k, b) ==
    IF b = NullText THEN [k |-> Bytes(<<>>), err |-> NoErr]
    ELSE LET r == JSONUnmarshalString(b)
         IN IF ~r.ok THEN [k |-> k, err |-> "KeyID: cannot unmarshal non-string, non-null value"]
            ELSE IF ~HasPrefix(r.s, Prefix)
                 THEN [k |-> k, err |-> "KeyID: missing required prefix"]
            ELSE LET d == HexDecode(SubSeq(r.s, Len(Prefix) + 1, Len(r.s)))
                 IN IF ~d.ok THEN [k |-> k, err |-> "KeyID: invalid hex encoding"]
                    ELSE [k |-> Bytes(d.b), err |-> NoErr]

(***************************************************************************)
(* SpecKeyID: either an identifier is at hand, to be marshalled into the   *)
(* buffer, or the buffer holds a text that arrived from outside; whatever  *)
(* is in the buffer is unmarshalled into target.                           *)
(***************************************************************************)
MaxIDLen == 2
MaxTailLen == 3
IDBytes == {0, 3, 171, 255}
TailChars == {"0", "a", "B", "g"}

SeqsUpTo(S, n) == UNION {[1..m -> S] : m \in 0..n}

KeyIDs == {NilBytes} \cup {Bytes(s) : s \in SeqsUpTo(IDBytes, MaxIDLen)}

ForeignPrefixes == {Prefix, <<>>, <<"t", "l", "p", "u", "b">>,
                    <<"T", "L", "P", "U", "B", ":">>}
ForeignTexts ==
    {JSONMarshalString(p \o t) : p \in ForeignPrefixes, t \in SeqsUpTo(TailChars, MaxTailLen)}
    \cup {<<"1">>, <<"t", "r", "u", "e">>, <<"[", "]">>, <<DQ, "t", "l", "p", "u", "b", ":">>}

KidInit ==
    /\ \/ kid \in KeyIDs /\ buf = <<>>
       \/ kid = None /\ buf \in ForeignTexts
    /\ target \in {NilBytes, Bytes(<<9>>)}
    /\ kerr = NoErr
    /\ klast = [op |-> "none", src |-> "none"]
    \* the other components are not in use
    /\ key = None
    /\ res = [op |-> "none"]
    /\ heapBytes = <<>>
    /\ heapMaps = <<>>
    /\ orig = None
    /\ clone = None
    /\ last = [op |-> "none"]
    /\ jkey = None
    /\ jdoc = None
    /\ jdst = None
    /\ jerr = NoErr
    /\ jlast = [op |-> "none"]
    /\ updates = <<>>
    /\ jsonVersion = 0
    /\ pc = "idle"
    /\ idx = 0
    /\ messages = <<>>
    /\ out = <<>>
    /\ err = NoErr

KidMarshal ==
    /\ kid # None
    /\ buf' = KeyIDMarshalJSON(kid)
    /\ klast' = [op |-> "Marshal", src |-> "Marshal"]
    /\ UNCHANGED <<kid, target, kerr>>
    /\ UNCHANGED notKid

KidUnmarshal ==
    /\ LET r == KeyIDUnmarshalJSON(target, buf)
       IN /\ target' = r.k
          /\ kerr' = r.err
    /\ klast' = [op |-> "Unmarshal", src |-> klast.src]
    /\ UNCHANGED <<kid, buf>>
    /\ UNCHANGED notKid

KidNext ==
    \/ KidMarshal
    \/ KidUnmarshal

HexDigitSet == {"0", "1", "2", "3", "4", "5", "6", "7", "8", "9",
                "a", "b", "c", "d", "e", "f", "A", "B", "C", "D", "E", "F"}
LowerDigitSet == {"0", "1", "2", "3", "4", "5", "6", "7", "8", "9",
                  "a", "b", "c", "d", "e", "f"}

\* buf is the text form of the identifier kid.
IsTextFormOf(t, k) ==
    IF Len(k.b) = 0 THEN t = NullText
    ELSE /\ Len(t) = 2 * Len(k.b) + 8
         /\ t[1] = DQ /\ t[Len(t)] = DQ
         /\ SubSeq(t, 2, 7) = <<"t", "l", "p", "u", "b", ":">>
         /\ \A j \in 1..Len(k.b) :
               /\ t[6 + 2 * j] \in LowerDigitSet
               /\ t[7 + 2 * j] \in LowerDigitSet
               /\ (CHOOSE n \in 1..16 : LowerHex[n] = t[6 + 2 * j]) - 1 = k.b[j] \div 16
               /\ (CHOOSE n \in 1..16 : LowerHex[n] = t[7 + 2 * j]) - 1 = k.b[j] % 16

\* t is a plain JSON string whose content lacks the tlpub: prefix or whose
\* digits after the prefix are not valid hex.
IsBadIDString(t) ==
    /\ Len(t) >= 2 /\ t[1] = DQ /\ t[Len(t)] = DQ
    /\ \A j \in 2..(Len(t) - 1) : t[j] \notin {DQ, BS}
    /\ LET s == SubSeq(t, 2, Len(t) - 1)
       IN \/ Len(s) < 6
          \/ SubSeq(s, 1, 6) # <<"t", "l", "p", "u", "b", ":">>
          \/ Len(s) % 2 = 1
          \/ \E j \in 7..Len(s) : s[j] \notin HexDigitSet

C6_State ==
    /\ klast.op = "Marshal" => IsTextFormOf(buf, kid)
    /\ (klast.op = "Unmarshal" /\ klast.src = "Marshal") =>
          (kerr = NoErr /\ ~target.isNil /\ target.b = kid.b)

\* C6: the text form of a key identifier is "tlpub:" and the lowercase hex of
\* its bytes, an empty identifier is null; unmarshalling what MarshalJSON
\* wrote succeeds and gives the same bytes (a nil and an empty identifier
\* both come back empty); a string without the prefix, or with invalid hex,
\* is rejected and the target keeps its value.
C6_KeyIDRoundTrip ==
    [][/\ C6_State'
       /\ (klast'.op = "Unmarshal" /\ IsBadIDString(buf)) =>
             (kerr' # NoErr /\ target' = target)]_vars

C6_Witness ==
    /\ klast.op = "Unmarshal"
    /\ klast.src = "Marshal"
    /\ kid # None
    /\ Len(kid.b) = MaxIDLen
    /\ \E j \in 1..Len(kid.b) : kid.b[j] > 160
    /\ target = kid

(***************************************************************************)
(* KeyKind.String / MarshalText / UnmarshalText                            *)
(***************************************************************************)
\* strconv's decimal form of a non-negative number.
RECURSIVE FormatUint(_)
FormatUint(n) ==
    IF n < 10 THEN <<LowerHex[n + 1]>>
    ELSE FormatUint(n \div 10) \o <<LowerHex[(n % 10) + 1]>>

IsDigits(t) == Len(t) >= 1 /\ \A j \in 1..Len(t) : HexVal(t[j]) \in 0..9 /\ t[j] \in LowerDigitSet

RECURSIVE ParseUint(_)
ParseUint(t) ==
    IF t = <<>> THEN 0
    ELSE ParseUint(SubSeq(t, 1, Len(t) - 1)) * 10 + HexVal(t[Len(t)])

KindString(k) ==
    IF k = KeyInvalid THEN <<"i", "n", "v", "a", "l", "i", "d">>
    ELSE IF k = Key25519 THEN <<"2", "5", "5", "1", "9">>
    ELSE <<"K", "e", "y", "?", "<">> \o FormatUint(k) \o <<">">>

KindMarshalText(k) == KindString(k)

KindUnmarshalText(b) ==
    IF b = KindString(KeyInvalid) THEN [ok |-> TRUE, k |-> KeyInvalid]
    ELSE IF b = KindString(Key25519) THEN [ok |-> TRUE, k |-> Key25519]
    ELSE [ok |-> FALSE, k |-> KeyInvalid]

(***************************************************************************)
(* jsonPublicKey, Key.MarshalJSON, Key.UnmarshalJSON.  The JSON object is  *)
(* kept as its four members; each member is the text encoding/json writes  *)
(* for it, and Meta is null or the list of its members in key order.       *)
(***************************************************************************)
jsonPublicKeyMarshalJSON(k) ==
    IF Len(k.b) = 0 THEN NullText
    ELSE JSONMarshalString(Prefix \o HexEncode(k.b))

jsonPublicKeyUnmarshalJSON(k, b) ==
    IF b = NullText THEN [k |-> Bytes(<<>>), err |-> NoErr]
    ELSE LET r == JSONUnmarshalString(b)
         IN IF ~r.ok THEN [k |-> k, err |-> "KeyID: cannot unmarshal non-string, non-null value"]
            ELSE IF ~HasPrefix(r.s, Prefix)
                 THEN [k |-> k, err |-> "KeyID: missing required prefix"]
            ELSE LET d == HexDecode(SubSeq(r.s, Len(Prefix) + 1, Len(r.s)))
                 IN IF ~d.ok THEN [k |-> k, err |-> "KeyID: invalid hex encoding"]
                    ELSE [k |-> Bytes(d.b), err |-> NoErr]

\* Byte order of the tokens used in metadata strings.
TokenOrder == <<DQ, "a", "xBD", "xBF", "xEF", "xFF">>
ByteOrd(c) == CHOOSE n \in 1..Len(TokenOrder) : TokenOrder[n] = c

RECURSIVE StrLess(_, _)
StrLess(a, b) ==
    IF b = <<>> THEN FALSE
    ELSE IF a = <<>> THEN TRUE
    ELSE IF ByteOrd(Head(a)) # ByteOrd(Head(b)) THEN ByteOrd(Head(a)) < ByteOrd(Head(b))
    ELSE StrLess(Tail(a), Tail(b))

\* encoding/json writes a map's members sorted by key.
RECURSIVE MarshalMembers(_, _)
MarshalMembers(m, ks) ==
    IF ks = {} THEN <<>>
    ELSE LET k == CHOOSE x \in ks : \A y \in ks \ {x} : StrLess(x, y)
         IN <<<<JSONMarshalString(k), JSONMarshalString(m[k])>>>>
            \o MarshalMembers(m, ks \ {k})

JSONMarshalMap(mp) ==
    IF mp.isNil THEN [null |-> TRUE, members |-> <<>>]
    ELSE [null |-> FALSE, members |-> MarshalMembers(mp.m, DOMAIN mp.m)]

\* Members are stored one after the other: a later one replaces an earlier
\* one with the same key.
RECURSIVE UnmarshalMembers(_)
UnmarshalMembers(ms) ==
    IF ms = <<>> THEN [ok |-> TRUE, m |-> EmptyFn]
    ELSE LET before == UnmarshalMembers(SubSeq(ms, 1, Len(ms) - 1))
             k == JSONUnmarshalString(ms[Len(ms)][1])
             v == JSONUnmarshalString(ms[Len(ms)][2])
         IN IF ~before.ok \/ ~k.ok \/ ~v.ok THEN [ok |-> FALSE, m |-> EmptyFn]
            ELSE [ok |-> TRUE, m |-> (k.s :> v.s) @@ before.m]

JSONUnmarshalMap(j) ==
    IF j.null THEN [ok |-> TRUE, mp |-> NilMap]
    ELSE LET r == UnmarshalMembers(j.members)
         IN [ok |-> r.ok, mp |-> Map(r.m)]

KeyMarshalJSON_DropMeta(k) ==
    [Kind |-> JSONMarshalString(KindMarshalText(k.Kind)),
     Votes |-> FormatUint(k.Votes),
     Public |-> jsonPublicKeyMarshalJSON(k.Public),
     Meta |-> JSONMarshalMap(NilMap)]

KeyMarshalJSON(k) ==
    [Kind |-> JSONMarshalString(KindMarshalText(k.Kind)),
     Votes |-> FormatUint(k.Votes),
     Public |-> jsonPublicKeyMarshalJSON(k.Public),
     Meta |-> JSONMarshalMap(k.Meta)]

ZeroKey == [Kind |-> KeyInvalid, Votes |-> 0, Public |-> NilBytes, Meta |-> NilMap]

\* The result is the value *k holds afterwards and the error returned.
KeyUnmarshalJSON(k, doc) ==
    LET kindText == JSONUnmarshalString(doc.Kind)
        kind == KindUnmarshalText(kindText.s)
        pub == jsonPublicKeyUnmarshalJSON(NilBytes, doc.Public)
        meta == JSONUnmarshalMap(doc.Meta)
    IN IF ~kindText.ok THEN [k |-> k, err |-> "json: cannot unmarshal"]
       ELSE IF ~kind.ok THEN [k |-> k, err |-> "unrecognised key kind"]
       ELSE IF ~IsDigits(doc.Votes) THEN [k |-> k, err |-> "json: cannot unmarshal"]
       ELSE IF pub.err # NoErr THEN [k |-> k, err |-> pub.err]
       ELSE IF ~meta.ok THEN [k |-> k, err |-> "json: cannot unmarshal"]
       ELSE [k |-> [Kind |-> kind.k, Votes |-> ParseUint(doc.Votes),
                    Public |-> pub.k, Meta |-> meta.mp],
             err |-> NoErr]

(***************************************************************************)
(* SpecKeyJSON: a key is marshalled and the output is unmarshalled into    *)
(* another key.                                                            *)
(***************************************************************************)
MaxMetaStr == 1
\* A weight far above the limit.
LargeVotes == 1000 * 1000 * 1000
MetaTokens == {"a", DQ, "xFF"}
MetaStrings == SeqsUpTo(MetaTokens, MaxMetaStr)

JVotes == {0, 1, 10, maxVotes, maxVotes + 1, LargeVotes}
JPublics == {NilBytes, Bytes(<<>>), Bytes(<<3, 3>>), Bytes(<<171>>)}
JMetas == {NilMap, Map(EmptyFn), Map((<<"a">> :> <<"a", "a">>) @@ (<<>> :> <<DQ>>))}
          \cup {Map(k :> v) : k \in MetaStrings, v \in MetaStrings}
JKeys == [Kind : Kinds, Votes : JVotes, Public : JPublics, Meta : JMetas]

JsonInit ==
    /\ jkey \in JKeys
    /\ jdoc = None
    /\ jdst \in {ZeroKey, [Kind |-> Key25519, Votes |-> 7, Public |-> Bytes(<<9>>),
                           Meta |-> Map((<<"a">> :> <<"a">>))]}
    /\ jerr = NoErr
    /\ jlast = [op |-> "none"]
    \* the other components are not in use
    /\ key = None
    /\ res = [op |-> "none"]
    /\ heapBytes = <<>>
    /\ heapMaps = <<>>
    /\ orig = None
    /\ clone = None
    /\ last = [op |-> "none"]
    /\ kid = None
    /\ buf = <<>>
    /\ target = None
    /\ kerr = NoErr
    /\ klast = [op |-> "none", src |-> "none"]
    /\ updates = <<>>
    /\ jsonVersion = 0
    /\ pc = "idle"
    /\ idx = 0
    /\ messages = <<>>
    /\ out = <<>>
    /\ err = NoErr

JMarshal ==
    /\ jdoc' = KeyMarshalJSON(jkey)
    /\ jlast' = [op |-> "Marshal"]
    /\ UNCHANGED <<jkey, jdst, jerr>>
    /\ UNCHANGED notJson

JUnmarshal ==
    /\ jdoc # None
    /\ LET r == KeyUnmarshalJSON(jdst, jdoc)
       IN /\ jdst' = r.k
          /\ jerr' = r.err
    /\ jlast' = [op |-> "Unmarshal"]
    /\ UNCHANGED <<jkey, jdoc>>
    /\ UNCHANGED notJson

JsonNext ==
    \/ JMarshal
    \/ JUnmarshal

KeysEqual(a, b) ==
    /\ a.Kind = b.Kind
    /\ a.Votes = b.Votes
    /\ a.Public.b = b.Public.b
    /\ a.Meta = b.Meta

ValidUTF8(str) == \A j \in 1..Len(str) : str[j] # "xFF"
MetaValidUTF8(k) ==
    \A x \in DOMAIN k.Meta.m : ValidUTF8(x) /\ ValidUTF8(k.Meta.m[x])

\* C7 as stated: for every Key, of every KeyKind value and with any Meta,
\* UnmarshalJSON of the output of MarshalJSON succeeds and yields an equal key.
C7_RoundTripEveryKey ==
    jlast.op = "Unmarshal" => (jerr = NoErr /\ KeysEqual(jdst, jkey))

\* C7 (amended): for every Key whose Kind is KeyInvalid or Key25519 and whose
\* Meta keys and values are valid UTF-8, UnmarshalJSON of the output of
\* MarshalJSON succeeds and yields a key equal in Kind, Votes, Public (nil
\* and empty alike) and Meta; for a Key of any other Kind it fails and
\* leaves the destination as it was.
C7_RoundTripDeclaredKinds ==
    [][jlast'.op = "Unmarshal" =>
          IF jkey.Kind \in {KeyInvalid, Key25519}
          THEN MetaValidUTF8(jkey) => (jerr' = NoErr /\ KeysEqual(jdst', jkey))
          ELSE jerr' = "unrecognised key kind" /\ jdst' = jdst]_vars

C7_Witness ==
    /\ jlast.op = "Unmarshal"
    /\ jkey.Kind = Key25519
    /\ jkey.Votes = maxVotes
    /\ Len(jkey.Public.b) = 2
    /\ Cardinality(DOMAIN jkey.Meta.m) = 2
    /\ jerr = NoErr
    /\ jdst = jkey

(***************************************************************************)
(* tka.AUM as the printer uses it: Unserialize, Serialize and Hash.  An    *)
(* AUM is kept as its message kind and one payload byte; its encoding is   *)
(* the two bytes <<kind, payload>>, and anything else is malformed.        *)
(***************************************************************************)
AUMKinds == {1, 2, 5}

AUMSerialize(a) == <<a.MessageKind, a.Payload>>

AUMUnserialize(raw) ==
    IF Len(raw) = 2 /\ raw[1] \in AUMKinds
    THEN [ok |-> TRUE, aum |-> [MessageKind |-> raw[1], Payload |-> raw[2]]]
    ELSE [ok |-> FALSE, aum |-> [MessageKind |-> 0, Payload |-> 0]]

\* The digest of the encoding; distinct encodings have distinct digests.
AUMHash(a) == <<"blake2s", AUMSerialize(a)>>

(***************************************************************************)
(* base64.URLEncoding.EncodeToString                                       *)
(***************************************************************************)
B64URL == <<"A", "B", "C", "D", "E", "F", "G", "H", "I", "J", "K", "L", "M", "N", "O", "P",
                  "Q", "R", "S", "T", "U", "V", "W", "X", "Y", "Z", "a", "b", "c", "d", "e", "f",
                  "g", "h", "i", "j", "k", "l", "m", "n", "o", "p", "q", "r", "s", "t", "u", "v",
                  "w", "x", "y", "z", "0", "1", "2", "3", "4", "5", "6", "7", "8", "9", "-", "_">>

B64Group(b) ==
    IF Len(b) = 1
    THEN <<B64URL[(b[1] \div 4) + 1], B64URL[((b[1] % 4) * 16) + 1], "=", "=">>
    ELSE IF Len(b) = 2
    THEN <<B64URL[(b[1] \div 4) + 1],
           B64URL[((b[1] % 4) * 16 + (b[2] \div 16)) + 1],
           B64URL[((b[2] % 16) * 4) + 1], "=">>
    ELSE <<B64URL[(b[1] \div 4) + 1],
           B64URL[((b[1] % 4) * 16 + (b[2] \div 16)) + 1],
           B64URL[((b[2] % 16) * 4 + (b[3] \div 64)) + 1],
           B64URL[(b[3] % 64) + 1]>>

RECURSIVE Base64URLEncode(_)
Base64URLEncode(b) ==
    IF b = <<>> THEN <<>>
    ELSE IF Len(b) <= 3 THEN B64Group(b)
    ELSE B64Group(SubSeq(b, 1, 3)) \o Base64URLEncode(SubSeq(b, 4, Len(b)))

(***************************************************************************)
(* PrintNetworkLockJSON and printNetworkLockJSONV1.  out is the list of    *)
(* documents written to the io.Writer so far.                              *)
(***************************************************************************)
ZeroMessage == [Hash |-> <<>>, AUM |-> [MessageKind |-> 0, Payload |-> 0], Raw |-> <<>>]

\* if jsonVersion == 1 { return printNetworkLockJSONV1(...) } else { return error }
PrintNetworkLockJSON_DefaultToV1 ==
    /\ pc = "start"
    /\ pc' = "loop"
    /\ messages' = [j \in 1..Len(updates) |-> ZeroMessage]
    /\ idx' = 0
    /\ UNCHANGED <<updates, jsonVersion, out, err>>
    /\ UNCHANGED notLog

PrintNetworkLockJSON ==
    /\ pc = "start"
    /\ IF jsonVersion = 1
       THEN /\ pc' = "loop"
            /\ messages' = [j \in 1..Len(updates) |-> ZeroMessage]
            /\ idx' = 0
            /\ UNCHANGED err
       ELSE /\ pc' = "done"
            /\ err' = "unrecognised version"
            /\ UNCHANGED <<messages, idx>>
    /\ UNCHANGED <<updates, jsonVersion, out>>
    /\ UNCHANGED notLog

\* One pass of the loop that skips an update it cannot decode.
V1LoopStep_SkipUndecodable ==
    /\ pc = "loop"
    /\ idx < Len(updates)
    /\ LET update == updates[idx + 1]
           d == AUMUnserialize(update.Raw)
       IN IF ~d.ok
          THEN /\ idx' = idx + 1
               /\ UNCHANGED <<messages, pc, err>>
          ELSE IF AUMHash(d.aum) # update.Hash
          THEN /\ err' = "incorrect AUM hash"
               /\ pc' = "done"
               /\ UNCHANGED <<messages, idx>>
          ELSE /\ messages' = [messages EXCEPT ![idx + 1] =
                                  [Hash |-> AUMHash(d.aum), AUM |-> d.aum,
                                   Raw |-> Base64URLEncode(update.Raw)]]
               /\ idx' = idx + 1
               /\ UNCHANGED <<pc, err>>
    /\ UNCHANGED <<updates, jsonVersion, out>>
    /\ UNCHANGED notLog

\* One pass of the loop without the comparison of the two hashes.
V1LoopStep_NoHashCheck ==
    /\ pc = "loop"
    /\ idx < Len(updates)
    /\ LET update == updates[idx + 1]
           d == AUMUnserialize(update.Raw)
       IN IF ~d.ok
          THEN /\ err' = "decoding"
               /\ pc' = "done"
               /\ UNCHANGED <<messages, idx>>
          ELSE /\ messages' = [messages EXCEPT ![idx + 1] =
                                  [Hash |-> AUMHash(d.aum), AUM |-> d.aum,
                                   Raw |-> Base64URLEncode(update.Raw)]]
               /\ idx' = idx + 1
               /\ UNCHANGED <<pc, err>>
    /\ UNCHANGED <<updates, jsonVersion, out>>
    /\ UNCHANGED notLog

\* One pass of the loop `for i, update := range updates`.
V1LoopStep ==
    /\ pc = "loop"
    /\ idx < Len(updates)
    /\ LET update == updates[idx + 1]
           d == AUMUnserialize(update.Raw)
       IN IF ~d.ok
          THEN /\ err' = "decoding"
               /\ pc' = "done"
               /\ UNCHANGED <<messages, idx>>
          ELSE IF AUMHash(d.aum) # update.Hash
          THEN /\ err' = "incorrect AUM hash"
               /\ pc' = "done"
               /\ UNCHANGED <<messages, idx>>
          ELSE /\ messages' = [messages EXCEPT ![idx + 1] =
                                  [Hash |-> AUMHash(d.aum), AUM |-> d.aum,
                                   Raw |-> Base64URLEncode(update.Raw)]]
               /\ idx' = idx + 1
               /\ UNCHANGED <<pc, err>>
    /\ UNCHANGED <<updates, jsonVersion, out>>
    /\ UNCHANGED notLog

\* After the loop: the result is encoded and written in one Write, which the
\* writer may refuse.
V1Encode ==
    /\ pc = "loop"
    /\ idx = Len(updates)
    /\ \/ /\ out' = Append(out, [SchemaVersion |-> <<"1">>, Messages |-> messages])
          /\ err' = NoErr
       \/ /\ out' = out
          /\ err' = "write failed"
    /\ pc' = "done"
    /\ UNCHANGED <<updates, jsonVersion, messages, idx>>
    /\ UNCHANGED notLog

(***************************************************************************)
(* SpecLog: one call of PrintNetworkLockJSON on a list of updates.         *)
(***************************************************************************)
MaxUpdates == 3
MaxVersion == 2
Versions == (-1)..MaxVersion

RawSamples == {<<>>, <<1>>, <<1, 1>>, <<2, 251>>, <<5, 255>>, <<9, 1>>, <<1, 1, 1>>}
HashSamples == {AUMHash([MessageKind |-> 1, Payload |-> 1]),
                AUMHash([MessageKind |-> 2, Payload |-> 251])}
UpdateSamples ==
    {[Hash |-> IF AUMUnserialize(r).ok THEN AUMHash(AUMUnserialize(r).aum)
               ELSE AUMHash([MessageKind |-> 1, Payload |-> 1]),
      Raw |-> r] : r \in RawSamples}
    \cup {[Hash |-> h, Raw |-> <<1, 1>>] : h \in HashSamples}

LogInit ==
    /\ updates \in SeqsUpTo(UpdateSamples, MaxUpdates)
    /\ jsonVersion \in Versions
    /\ pc = "start"
    /\ idx = 0
    /\ messages = <<>>
    /\ out = <<>>
    /\ err = NoErr
    \* the other components are not in use
    /\ key = None
    /\ res = [op |-> "none"]
    /\ heapBytes = <<>>
    /\ heapMaps = <<>>
    /\ orig = None
    /\ clone = None
    /\ last = [op |-> "none"]
    /\ kid = None
    /\ buf = <<>>
    /\ target = None
    /\ kerr = NoErr
    /\ klast = [op |-> "none", src |-> "none"]
    /\ jkey = None
    /\ jdoc = None
    /\ jdst = None
    /\ jerr = NoErr
    /\ jlast = [op |-> "none"]

LogNext ==
    \/ PrintNetworkLockJSON
    \/ V1LoopStep
    \/ V1Encode

B64Index(c) == (CHOOSE n \in 1..64 : B64URL[n] = c) - 1

\* The bytes a padded base64 text stands for.
RECURSIVE Base64Decode(_)
Base64Decode(t) ==
    IF t = <<>> THEN <<>>
    ELSE LET a == B64Index(t[1])
             b == B64Index(t[2])
             rest == Base64Decode(SubSeq(t, 5, Len(t)))
         IN IF t[3] = "=" THEN <<a * 4 + b \div 16>>
            ELSE IF t[4] = "="
            THEN <<a * 4 + b \div 16, (b % 16) * 16 + B64Index(t[3]) \div 4>>
            ELSE <<a * 4 + b \div 16, (b % 16) * 16 + B64Index(t[3]) \div 4,
                   (B64Index(t[3]) % 4) * 64 + B64Index(t[4])>> \o rest

BadUpdate(u) ==
    \/ ~AUMUnserialize(u.Raw).ok
    \/ u.Hash # AUMHash(AUMUnserialize(u.Raw).aum)

\* C8: with a schema version other than 1 (0, negative or larger) the call
\* returns the "unrecognised version" error, writes nothing and never enters
\* the version-1 printer; with version 1 it runs the version-1 printer, and
\* what it writes is the version-1 document.
C8_VersionDispatch ==
    /\ jsonVersion # 1 =>
          /\ pc # "loop"
          /\ out = <<>>
          /\ pc = "done" => err = "unrecognised version"
    /\ jsonVersion = 1 =>
          /\ err # "unrecognised version"
          /\ pc # "start" => Len(messages) = Len(updates)
          /\ (pc = "done" /\ err = NoErr) =>
                (Len(out) = 1 /\ out[1].SchemaVersion = <<"1">>)

C8_Witness ==
    /\ pc = "done"
    /\ jsonVersion = 0
    /\ Len(updates) >= 1
    /\ \A j \in 1..Len(updates) : ~BadUpdate(updates[j])
    /\ err = "unrecognised version"
    /\ out = <<>>

\* C9: on success the output is one document with SchemaVersion "1" and one
\* message per update, in the order of the updates; message j holds the AUM
\* decoded from update j's raw bytes, the base64 of exactly those bytes, and
\* a Hash that is the digest of the decoded AUM and the Hash update j gave.
C9_MessagesMatchUpdates ==
    (pc = "done" /\ err = NoErr) =>
        /\ Len(out) = 1
        /\ out[1].SchemaVersion = <<"1">>
        /\ Len(out[1].Messages) = Len(updates)
        /\ \A j \in 1..Len(updates) :
              LET e == out[1].Messages[j]
              IN /\ AUMUnserialize(updates[j].Raw).ok
                 /\ e.AUM = AUMUnserialize(updates[j].Raw).aum
                 /\ Base64Decode(e.Raw) = updates[j].Raw
                 /\ Len(e.Raw) = 4 * ((Len(updates[j].Raw) + 2) \div 3)
                 /\ e.Hash = AUMHash(e.AUM)
                 /\ e.Hash = updates[j].Hash

C9_Witness ==
    /\ pc = "done"
    /\ err = NoErr
    /\ Len(updates) = MaxUpdates
    /\ updates[1] # updates[2]
    /\ Len(out) = 1
    /\ Len(out[1].Messages) = MaxUpdates

\* C10: the version-1 printer is all-or-nothing.  If any update, at any
\* position, does not decode or carries a Hash that is not the digest of its
\* decoded AUM, the call ends with an error and nothing is ever written, the
\* entries of the valid updates before it included; whatever is written is
\* written after every update has been decoded and checked.
C10_AllOrNothing ==
    /\ (jsonVersion = 1 /\ \E j \in 1..Len(updates) : BadUpdate(updates[j])) =>
          /\ out = <<>>
          /\ pc = "done" => err \in {"decoding", "incorrect AUM hash"}
    /\ out # <<>> =>
          /\ idx = Len(updates)
          /\ \A j \in 1..Len(updates) : ~BadUpdate(updates[j])

C10_Witness ==
    /\ pc = "done"
    /\ jsonVersion = 1
    /\ Len(updates) = MaxUpdates
    /\ ~BadUpdate(updates[1])
    /\ ~BadUpdate(updates[2])
    /\ ~AUMUnserialize(updates[MaxUpdates].Raw).ok
    /\ idx = MaxUpdates - 1
    /\ err = "decoding"
    /\ out = <<>>

(***************************************************************************)
(* Specifications                                                          *)
(***************************************************************************)
SpecKey ==
    KeyInit /\ [][KeyNext]_vars

SpecClone ==
    CloneInit /\ [][CloneNext]_vars

SpecKeyID ==
    KidInit /\ [][KidNext]_vars

SpecKeyJSON ==
    JsonInit /\ [][JsonNext]_vars

SpecLog ==
    LogInit /\ [][LogNext]_vars

====
